---- MODULE Spec2Model ----
(***************************************************************************)
(* Maelstrom: the excitation system of the cylindrical Maxwell solver      *)
(* (maelstrom/maxwell_cylindrical.py).                                     *)
(*                                                                         *)
(* Numbers.  The program computes with complex floating point numbers.     *)
(* Here a complex number is a pair <<re, im>> of integers (Gaussian        *)
(* integers) with exact arithmetic; the factor 2*pi of the cylindrical     *)
(* volume element is taken as the unit.                                    *)
(*                                                                         *)
(* Matrices are functions row -> (column -> number) over 0..N-1, as the    *)
(* 0-based numpy arrays of the program; Python lists are sequences whose   *)
(* elements are 0-based indices.                                           *)
(***************************************************************************)
EXTENDS Integers, Sequences, FiniteSets, TLC

VARIABLES
    pc,                \* position in the entry function that was called
    args,              \* arguments of a direct call of prescribe_*
    A, b,              \* the excitation system (numpy arrays)
    J,                 \* the voltage-current matrix
    err,               \* the exception that left the entry function, if any
    coils,             \* compute_potential: the coils argument
    io_submesh,        \* compute_potential: whether io_submesh was supplied
    verbose,           \* compute_potential: the verbose flag
    env,               \* the physical setting: omega and the field operator
    physical_indices,  \* compute_potential: ring number -> subdomain index
    new_coils,         \* compute_potential: per coil, its ring numbers
    phi_list,          \* compute_potential: the reference potentials
    files,             \* the files written so far, in order
    kc,                \* compute_potential: index of the next coil / ring
    outcome,           \* how compute_potential ended, and what it returned
    sm_pc,             \* solve_maxwell: position
    sm_f_list,         \* solve_maxwell: the f_list argument
    sm_residuals,      \* solve_maxwell: the compute_residuals argument
    sm_b_list,         \* solve_maxwell: the assembled right-hand sides
    sm_phi_list,       \* solve_maxwell: the local phi_list
    sm_ret,            \* solve_maxwell: the returned list, once returned
    log,               \* history: the observable steps, in order
    th_pc,             \* test_solve: position
    stationary,        \* test_solve: the stationary argument
    problem,           \* test_heat: the heat problem (problems.Crucible())
    t,                 \* test_solve: the time t
    theta_1,           \* test_solve: the previous field theta_1
    theta,             \* test_solve: the field theta of the current step
    theta_reference,   \* test_solve: the stationary field theta_reference
    th_ret,            \* test_solve: the returned value, once returned
    steps,             \* history: the calls of implicit_euler_step so far
    xdmf,              \* what was written to temperature.xdmf, in order
    q_pc,              \* _parameter_quest: position
    q_i,               \* _parameter_quest: candidates finished so far
    first,             \* _parameter_quest: the local first
    best_match,        \* _parameter_quest: the local best_match
    best_match_norm,   \* _parameter_quest: the local best_match_norm
    successes,         \* _parameter_quest: candidates printed as 'Success!'
    reported,          \* _parameter_quest: candidates printed as new best
    jargs,             \* compute_joule: the arguments of the call
    joule_source,      \* compute_joule: the dictionary it builds
    amr_pc,            \* _adaptive_mesh_refinement: position
    eta,               \* _adaptive_mesh_refinement: the error indicators
    eta_0,             \* _adaptive_mesh_refinement: the threshold eta_0
    cell_markers,      \* _adaptive_mesh_refinement: the cell markers
    refinements        \* history: the markers of each call of refine

vars == <<pc, args, A, b, J, err, coils, io_submesh, verbose, env,
          physical_indices, new_coils, phi_list, files, kc, outcome,
          sm_pc, sm_f_list, sm_residuals, sm_b_list, sm_phi_list,
          sm_ret, log,
          th_pc, stationary, problem, t, theta_1, theta, theta_reference,
          th_ret, steps, xdmf,
          q_pc, q_i, first, best_match, best_match_norm, successes, reported,
          jargs, joule_source,
          amr_pc, eta, eta_0, cell_markers, refinements>>

uvars == <<coils, io_submesh, verbose, env, physical_indices, new_coils,
           phi_list, files, kc, outcome>>
smvars == <<sm_pc, sm_f_list, sm_residuals, sm_b_list, sm_phi_list, sm_ret>>
heatvars == <<th_pc, stationary, problem, t, theta_1, theta, theta_reference,
              th_ret, steps, xdmf>>
questvars == <<q_i, first, best_match, best_match_norm, successes, reported>>
joulevars == <<jargs, joule_source>>
\* the variables of examples/test_heat.py and of compute_joule
amrvars == <<amr_pc, eta, eta_0, cell_markers, refinements>>
xvars == <<heatvars, q_pc, questvars, joulevars, amrvars>>

(***************************************************************************)
(* Bounds of the model.                                                    *)
(***************************************************************************)
MaxRings == 3
MaxCoils == 2

(***************************************************************************)
(* Complex arithmetic.                                                     *)
(***************************************************************************)
CZero == <<0, 0>>
COne == <<1, 0>>
CReal(x) == <<x, 0>>
CAdd(x, y) == <<x[1] + y[1], x[2] + y[2]>>
CSub(x, y) == <<x[1] - y[1], x[2] - y[2]>>
CMul(x, y) == <<x[1] * y[1] - x[2] * y[2], x[1] * y[2] + x[2] * y[1]>>
CScale(n, x) == <<n * x[1], n * x[2]>>

Range(s) == {s[i] : i \in 1..Len(s)}
Idx(N) == 0..(N - 1)

RECURSIVE DotUpTo(_, _, _)
DotUpTo(row, w, n) ==
    IF n = 0 THEN CZero
    ELSE CAdd(DotUpTo(row, w, n - 1), CMul(row[n - 1], w[n - 1]))

\* numpy.dot(row, w)
Dot(row, w) == DotUpTo(row, w, Cardinality(DOMAIN row))

\* numpy.dot(M, w)
MatVec(M, w) == [i \in DOMAIN M |-> Dot(M[i], w)]

RECURSIVE SumOver(_, _, _)
SumOver(w, rings, n) ==
    IF n = 0 THEN CZero ELSE CAdd(SumOver(w, rings, n - 1), w[rings[n]])

\* sum(w[rings]) for a list of ring numbers
SumRings(w, rings) == SumOver(w, rings, Len(rings))

(***************************************************************************)
(* Exceptions.                                                             *)
(***************************************************************************)
NoError == [type |-> "none", msg |-> <<>>]
NotYetImplemented == [type |-> "RuntimeError", msg |-> <<"Not yet implemented.">>]
IndexError == [type |-> "IndexError", msg |-> <<"list index out of range">>]

\* '%r' of a string
Repr(s) == <<"'", s, "'">>

IllegalWeightType(weight_type) ==
    [type |-> "RuntimeError",
     msg |-> <<"Illegal weight type '">> \o Repr(weight_type) \o <<"'.">>]

(***************************************************************************)
(* prescribe_current(A, b, coil_rings, current)                            *)
(*                                                                         *)
(* coil_rings is a Python list.  A[coil_rings] is numpy's advanced         *)
(* indexing, which yields a new array holding copies of the rows; the      *)
(* statement A[coil_rings][:] = 0.0 fills that temporary and leaves A as   *)
(* it was.  A[i][i] = 1.0 and b[coil_rings] = current write through.       *)
(***************************************************************************)
RowsCopy(A_, coil_rings) == [k \in 1..Len(coil_rings) |-> A_[coil_rings[k]]]

prescribe_current_whole_b(A_, b_, coil_rings, current) ==
    [A |-> [i \in DOMAIN A_ |->
               IF i \in Range(coil_rings) THEN [A_[i] EXCEPT ![i] = COne]
               ELSE A_[i]],
     b |-> [i \in DOMAIN b_ |-> current],
     err |-> NoError]

prescribe_current(A_, b_, coil_rings, current) ==
    LET tmp == [k \in DOMAIN RowsCopy(A_, coil_rings) |->
                   [j \in DOMAIN A_ |-> CZero]]    \* the zeroed temporary
        A1 == A_                                   \* A itself is not reached
        A2 == [i \in DOMAIN A1 |->
                  IF i \in Range(coil_rings)
                  THEN [A1[i] EXCEPT ![i] = COne]
                  ELSE A1[i]]
        b1 == [i \in DOMAIN b_ |->
                  IF i \in Range(coil_rings) THEN current ELSE b_[i]]
    IN  [A |-> A2, b |-> b1, err |-> NoError]

(***************************************************************************)
(* prescribe_voltage(A, b, coil_rings, voltage, v_ref, J)                  *)
(***************************************************************************)
\* the loop over k in range(len(coil_rings) - 1); kk counts the iterations
\* still to be applied, the last of them being iteration kk - 1
RECURSIVE EqualCurrentRows(_, _, _, _)
RECURSIVE EqualCurrentRowsFromOne(_, _, _, _)

\* variant: the loop starts at k = 1, range(1, len(coil_rings) - 1)
EqualCurrentRowsFromOne(Ab, coil_rings, J_, kk) ==
    IF kk <= 1 THEN Ab
    ELSE LET prev == EqualCurrentRowsFromOne(Ab, coil_rings, J_, kk - 1)
             i == coil_rings[kk]
             i1 == coil_rings[kk + 1]
             row == [j \in DOMAIN J_[i] |-> CSub(J_[i][j], J_[i1][j])]
         IN  [A |-> [prev.A EXCEPT ![i] = row],
              b |-> [prev.b EXCEPT ![i] = CZero]]

EqualCurrentRows(Ab, coil_rings, J_, kk) ==
    IF kk <= 0 THEN Ab
    ELSE LET prev == EqualCurrentRows(Ab, coil_rings, J_, kk - 1)
             i == coil_rings[kk]          \* coil_rings[k], k = kk - 1
             i1 == coil_rings[kk + 1]     \* coil_rings[k + 1]
             row == [j \in DOMAIN J_[i] |-> CSub(J_[i][j], J_[i1][j])]
         IN  [A |-> [prev.A EXCEPT ![i] = row],
              b |-> [prev.b EXCEPT ![i] = CZero]]

\* variant: the row is not cleared (A[i][:] = 0.0 left out)
VoltageSumRowUncleared(Ab, coil_rings, voltage, v_ref) ==
    LET i == coil_rings[Len(coil_rings)]
        row == [j \in DOMAIN Ab.A[i] |->
                   IF j \in Range(coil_rings) THEN CReal(v_ref) ELSE Ab.A[i][j]]
    IN  [A |-> [Ab.A EXCEPT ![i] = row],
         b |-> [Ab.b EXCEPT ![i] = voltage]]

VoltageSumRow(Ab, coil_rings, voltage, v_ref) ==
    LET i == coil_rings[Len(coil_rings)]  \* coil_rings[-1]
        row == [j \in DOMAIN Ab.A[i] |->
                   IF j \in Range(coil_rings) THEN CReal(v_ref) ELSE CZero]
    IN  [A |-> [Ab.A EXCEPT ![i] = row],
         b |-> [Ab.b EXCEPT ![i] = voltage]]

prescribe_voltage(A_, b_, coil_rings, voltage, v_ref, J_) ==
    LET looped == EqualCurrentRows([A |-> A_, b |-> b_], coil_rings, J_,
                                   Len(coil_rings) - 1)
    IN  IF Len(coil_rings) = 0
        THEN [A |-> A_, b |-> b_, err |-> IndexError]   \* coil_rings[-1]
        ELSE LET last == VoltageSumRow(looped, coil_rings, voltage, v_ref)
             IN  [A |-> last.A, b |-> last.b, err |-> NoError]

(***************************************************************************)
(* prescribe_power(A, b, coil_rings, total_power, v_ref, J): the raise is  *)
(* the first statement; the rest of the body is not reached.               *)
(***************************************************************************)
\* variant: the raise comes after the voltage rows have been written
prescribe_power_late_raise(A_, b_, coil_rings, total_power, v_ref, J_) ==
    LET r == prescribe_voltage(A_, b_, coil_rings, CReal(v_ref), v_ref, J_)
    IN  [A |-> r.A, b |-> r.b, err |-> NotYetImplemented]

prescribe_power(A_, b_, coil_rings, total_power, v_ref, J_) ==
    [A |-> A_, b |-> b_, err |-> NotYetImplemented]

(***************************************************************************)
(* Direct calls of prescribe_current, prescribe_voltage, prescribe_power   *)
(* on an N x N system with arbitrary prior contents.                       *)
(***************************************************************************)
\* prior contents of an array: arbitrary numbers
PriorVals == {CZero, <<3, 1>>}

PriorMatrices(N) ==
    {[i \in Idx(N) |-> [j \in Idx(N) |-> g]] : g \in PriorVals}
    \cup {[i \in Idx(N) |-> [j \in Idx(N) |-> <<i + 2, j + 1>>]]}

PriorVectors(N) == {[i \in Idx(N) |-> g] : g \in PriorVals}

\* what numpy.empty may hold: whatever the memory held, zeros included
UninitMatrices(N) ==
    {[i \in Idx(N) |-> [j \in Idx(N) |-> CZero]],
     [i \in Idx(N) |-> [j \in Idx(N) |-> <<i + 2, j + 1>>]]}

\* voltage-current matrices handed to a direct call
JInputs(N) ==
    {[k \in Idx(N) |-> [l \in Idx(N) |->
        IF k = l THEN d ELSE CScale(k + 1, m)]] :
            d \in {<<1, -1>>, <<2, 0>>}, m \in {CZero, <<0, -1>>}}

\* lists of distinct ring numbers, in any order
RingLists(N) ==
    {s \in UNION {[1..m -> Idx(N)] : m \in 0..N} :
        \A p, q \in DOMAIN s : p # q => s[p] # s[q]}

Targets == {<<1, 0>>, <<3, 0>>, <<2, 1>>}
VRefs == {1, 2}
PrescribeFns == {"prescribe_current", "prescribe_voltage", "prescribe_power"}

NoArgs == [fn |-> "none", coil_rings |-> <<>>, value |-> CZero, v_ref |-> 0,
           A0 |-> <<>>, b0 |-> <<>>]
NoEnv == [omega |-> 0, gself |-> CZero, gmut |-> CZero]
NoOutcome == [kind |-> "none", weights |-> <<>>, voltages |-> <<>>,
              Phi |-> <<>>]

PipelineIdle ==
    /\ coils = <<>> /\ io_submesh = FALSE /\ verbose = FALSE /\ env = NoEnv
    /\ physical_indices = <<>> /\ new_coils = <<>> /\ phi_list = <<>>
    /\ files = <<>> /\ kc = 0 /\ outcome = NoOutcome

SolveIdle ==
    /\ sm_pc = "idle" /\ sm_f_list = <<>> /\ sm_residuals = FALSE
    /\ sm_b_list = <<>> /\ sm_phi_list = <<>> /\ sm_ret = <<>>

None == <<>>

NoProblem == [heating |-> 0, steady |-> <<>>]
NoJouleArgs == [Phi |-> <<>>, voltages |-> <<>>, omega |-> 0, Sigma |-> <<>>,
                subdomain_indices |-> <<>>]

HeatIdle ==
    /\ th_pc = "idle" /\ stationary = FALSE /\ problem = NoProblem /\ t = 0
    /\ theta_1 = None /\ theta = None /\ theta_reference = None
    /\ th_ret = None /\ steps = <<>> /\ xdmf = <<>>

QuestIdle ==
    /\ q_pc = "idle" /\ q_i = 0 /\ first = TRUE /\ best_match = None
    /\ best_match_norm = None /\ successes = <<>> /\ reported = <<>>

JouleIdle == jargs = NoJouleArgs /\ joule_source = None

RefineIdle ==
    /\ amr_pc = "idle" /\ eta = <<>> /\ eta_0 = None
    /\ cell_markers = <<>> /\ refinements = <<>>

InitPrescribe ==
    /\ pc = "call"
    /\ err = NoError
    /\ log = <<>>
    /\ \E N \in 1..MaxRings :
          /\ A \in PriorMatrices(N)
          /\ b \in PriorVectors(N)
          /\ J \in JInputs(N)
          /\ \E fn \in PrescribeFns, cr \in RingLists(N),
                val \in Targets, vr \in VRefs :
                args = [fn |-> fn, coil_rings |-> cr, value |-> val,
                        v_ref |-> vr, A0 |-> A, b0 |-> b]
    /\ PipelineIdle
    /\ SolveIdle
    /\ HeatIdle /\ QuestIdle /\ JouleIdle /\ RefineIdle

Returned(r) ==
    /\ A' = r.A
    /\ b' = r.b
    /\ err' = r.err
    /\ pc' = IF r.err = NoError THEN "returned" ELSE "raised"
    /\ UNCHANGED <<xvars, args, J, log, uvars, smvars>>

CallPrescribeCurrent ==
    /\ pc = "call"
    /\ args.fn = "prescribe_current"
    /\ Returned(prescribe_current(A, b, args.coil_rings, args.value))

CallPrescribeVoltage ==
    /\ pc = "call"
    /\ args.fn = "prescribe_voltage"
    /\ Returned(prescribe_voltage(A, b, args.coil_rings, args.value,
                                  args.v_ref, J))

CallPrescribePower ==
    /\ pc = "call"
    /\ args.fn = "prescribe_power"
    /\ Returned(prescribe_power(A, b, args.coil_rings, args.value,
                                args.v_ref, J))

NextPrescribe ==
    \/ CallPrescribeCurrent
    \/ CallPrescribeVoltage
    \/ CallPrescribePower

SpecPrescribe == InitPrescribe /\ [][NextPrescribe]_vars

(***************************************************************************)
(* Fields.  The mesh is one cell per subdomain; a field of the doubled     *)
(* space W = V*V is a function subdomain -> <<real part, imaginary part>>. *)
(* Subdomain 1 is the workpiece, the others are available to coil rings.   *)
(***************************************************************************)
Subdomains == 1..(MaxRings + 1)

\* the conductivity dictionary Sigma (an input of the program)
Sigma(p) == 1 + (p % 2)

\* the settings the runs are drawn from: the frequency omega and the
\* response of the discretised operator (field in subdomain q per unit source
\* in subdomain p); convection makes the response non-symmetric
Envs ==
    {[omega |-> 1, gself |-> <<1, 0>>, gmut |-> <<0, 0>>],
     [omega |-> 2, gself |-> <<1, -1>>, gmut |-> <<0, 1>>]}

Green(e, p, q) ==
    IF p = q THEN e.gself
    ELSE IF p < q THEN e.gmut ELSE CScale(2, e.gmut)

\* a dictionary {subdomain: (real, imaginary)} is a function on its keys;
\* assemble(L): the source amplitude in each subdomain named by f
AssembleRhs(f) ==
    [q \in Subdomains |-> IF q \in DOMAIN f THEN f[q] ELSE CZero]

\* _build_system, lines 414-422: one right-hand side per entry of f_list
BuildRhsList(f_list) == [k \in 1..Len(f_list) |-> AssembleRhs(f_list[k])]

RECURSIVE ResponseUpTo(_, _, _, _)
ResponseUpTo(e, rhs, q, n) ==
    IF n = 0 THEN CZero
    ELSE CAdd(ResponseUpTo(e, rhs, q, n - 1), CMul(Green(e, n, q), rhs[n]))

\* solver.solve(phi.vector(), b): the field solving the system for rhs b
KrylovSolve(e, rhs) ==
    [q \in Subdomains |-> ResponseUpTo(e, rhs, q, MaxRings + 1)]

\* 'phi%d' % k
PhiName(k) == "phi" \o ToString(k)

\* 'phi%02d' % k
Pad2(k) == IF k < 10 THEN "0" \o ToString(k) ELSE ToString(k)
PhiFileName(k) == "phi" \o Pad2(k) \o ".xdmf"

Event(ev, k, name) == [ev |-> ev, k |-> k, name |-> name]

(***************************************************************************)
(* solve_maxwell                                                           *)
(***************************************************************************)
\* the names bound where line 296 evaluates the arguments of
\* _build_residuals: parameters and locals of solve_maxwell, and the module's
\* globals (imports, lines 76-83, and the functions it defines)
SolveMaxwellScope ==
    {"V", "dx", "Mu", "Sigma", "omega", "f_list", "convections", "bcs",
     "tol", "compute_residuals", "verbose", "xzero",
     "A", "P", "b_list", "M", "W", "solver", "phi_list", "k", "b"}
    \cup {"info", "Expression", "triangle", "plot", "interactive",
          "DOLFIN_EPS", "DirichletBC", "Function", "TestFunction",
          "TrialFunction", "solve", "zero", "norm", "KrylovSolver", "dot",
          "grad", "pi", "TrialFunctions", "TestFunctions", "assemble", "div",
          "Constant", "project", "FunctionSpace", "sqrt", "MPI",
          "MeshFunction", "numpy", "Message"}
    \cup {"solve_maxwell", "_build_residuals", "_build_system",
          "prescribe_current", "prescribe_voltage", "prescribe_power",
          "compute_potential", "get_voltage_current_matrix", "compute_joule",
          "compute_lorentz", "_adaptive_mesh_refinement", "_error_estimator",
          "_residual_strong"}

NameError(name) ==
    [type |-> "NameError",
     msg |-> <<"global name '", name, "' is not defined">>]

\* the names lines 296-299 read to call _build_residuals
ResidualArguments ==
    {"_build_residuals", "V", "dx", "phi_list", "omega", "Mu", "Sigma",
     "convections", "voltages"}

\* lines 207-213
SM_BuildSystem ==
    /\ sm_pc = "called"
    /\ sm_b_list' = BuildRhsList(sm_f_list)
    /\ sm_phi_list' = <<>>
    /\ sm_pc' = "loop"
    /\ log' = Append(log, Event("build_system", Len(sm_f_list), ""))
    /\ UNCHANGED <<xvars, pc, args, A, b, J, err, uvars, sm_f_list, sm_residuals,
                   sm_ret>>

\* lines 272-281: one pass of the loop body up to the solve
SM_SolveRing ==
    /\ sm_pc = "loop"
    /\ Len(sm_phi_list) < Len(sm_b_list)
    /\ LET k == Len(sm_phi_list)
           phi == [name |-> PhiName(k),
                   vec |-> KrylovSolve(env, sm_b_list[k + 1])]
       IN  /\ sm_phi_list' = Append(sm_phi_list, phi)
           /\ log' = Append(log, Event("solve", k, phi.name))
    /\ sm_pc' = IF sm_residuals THEN "residuals" ELSE "loop"
    /\ UNCHANGED <<xvars, pc, args, A, b, J, err, uvars, sm_f_list, sm_residuals,
                   sm_b_list, sm_ret>>

\* lines 292-337: the residual check of the ring just solved
SM_Residuals ==
    /\ sm_pc = "residuals"
    /\ LET unbound == ResidualArguments \ SolveMaxwellScope
       IN  IF unbound # {}
           THEN /\ err' = NameError(CHOOSE n \in unbound : TRUE)
                /\ sm_pc' = "raised"
                /\ log' = log
           ELSE /\ err' = err
                /\ sm_pc' = "loop"
                /\ log' = Append(log, Event("residuals",
                                            Len(sm_phi_list) - 1, ""))
    /\ UNCHANGED <<xvars, pc, args, A, b, J, uvars, sm_f_list, sm_residuals,
                   sm_b_list, sm_phi_list, sm_ret>>

\* line 338
SM_Return ==
    /\ sm_pc = "loop"
    /\ Len(sm_phi_list) = Len(sm_b_list)
    /\ sm_ret' = sm_phi_list
    /\ sm_pc' = "returned"
    /\ UNCHANGED <<xvars, pc, args, A, b, J, err, uvars, sm_f_list, sm_residuals,
                   sm_b_list, sm_phi_list, log>>

(***************************************************************************)
(* Direct calls of solve_maxwell.                                          *)
(***************************************************************************)
\* right-hand-side dictionaries handed to a direct call
RhsDicts ==
    {(2 :> <<1, 0>>), (3 :> <<2, 0>>), (2 :> <<1, 0>>) @@ (1 :> <<0, 1>>)}

FLists == UNION {[1..m -> RhsDicts] : m \in 0..MaxRings}

InitSolve ==
    /\ pc = "solve_maxwell"
    /\ args = NoArgs
    /\ A = <<>> /\ b = <<>> /\ J = <<>>
    /\ err = NoError
    /\ log = <<>>
    /\ coils = <<>> /\ io_submesh = FALSE /\ verbose = FALSE
    /\ env \in Envs
    /\ physical_indices = <<>> /\ new_coils = <<>> /\ phi_list = <<>>
    /\ files = <<>> /\ kc = 0 /\ outcome = NoOutcome
    /\ sm_pc = "called"
    /\ sm_f_list \in FLists
    /\ sm_residuals \in BOOLEAN
    /\ sm_b_list = <<>> /\ sm_phi_list = <<>> /\ sm_ret = <<>>
    /\ HeatIdle /\ QuestIdle /\ JouleIdle /\ RefineIdle

NextSolve ==
    \/ SM_BuildSystem
    \/ SM_SolveRing
    \/ SM_Residuals
    \/ SM_Return

SpecSolve == InitSolve /\ [][NextSolve]_vars

(***************************************************************************)
(* get_voltage_current_matrix(phi, physical_indices, dx, Sigma, omega,     *)
(* v_ref), lines 824-841.  J0 is the content of numpy.empty.               *)
(***************************************************************************)
\* line 832, with the integrals of lines 830-831 over the ring's cell
MutualTerm(phi_l, pi1, omega) ==
    LET int_r == Sigma(pi1) * phi_l.vec[pi1][1]
        int_i == Sigma(pi1) * phi_l.vec[pi1][2]
    IN  CMul(<<0, -omega>>, <<int_r, int_i>>)

SelfTermTwice(pi0, v_ref_) == CReal(2 * v_ref_ * Sigma(pi0))

\* lines 839-840: v_ref/(2*pi) * integral of Sigma/r over the ring's cell
SelfTerm(pi0, v_ref_) == CReal(v_ref_ * Sigma(pi0))

\* the inner loop over k, for column l (0-based), rows 0..n-1 done
RECURSIVE MutualColumn(_, _, _, _, _, _)
MutualColumn(Jm, phi, physical_indices_, omega, l, n) ==
    IF n = 0 THEN Jm
    ELSE LET prev == MutualColumn(Jm, phi, physical_indices_, omega, l, n - 1)
             k == n - 1
         IN  [prev EXCEPT ![k][l] =
                 MutualTerm(phi[l + 1], physical_indices_[k + 1], omega)]

\* the outer loop over l, columns 0..n-1 done
RECURSIVE VoltageCurrentColumns(_, _, _, _, _, _)
VoltageCurrentColumns(J0, phi, physical_indices_, omega, v_ref_, n) ==
    IF n = 0 THEN J0
    ELSE LET prev == VoltageCurrentColumns(J0, phi, physical_indices_, omega,
                                           v_ref_, n - 1)
             l == n - 1
             col == MutualColumn(prev, phi, physical_indices_, omega, l,
                                 Len(physical_indices_))
         IN  [col EXCEPT ![l][l] =
                 CAdd(col[l][l], SelfTerm(physical_indices_[l + 1], v_ref_))]

get_voltage_current_matrix(J0, phi, physical_indices_, omega, v_ref_) ==
    IF Len(phi) = 0
    THEN [J |-> J0, err |-> IndexError]           \* phi[0], line 821
    ELSE [J |-> VoltageCurrentColumns(J0, phi, physical_indices_, omega,
                                      v_ref_, Len(physical_indices_)),
          err |-> NoError]

(***************************************************************************)
(* compute_potential(coils, V, dx, mu, sigma, omega, convections,          *)
(*                   verbose=True, io_submesh=None)                        *)
(***************************************************************************)
\* line 662
v_ref == 1

WeightTypes == {"current", "voltage", "power", "resistance"}
\* the target values of the coils of one call: real, or complex
CoilValues(m) == {[k \in 1..m |-> <<k, 0>>], [k \in 1..m |-> <<1, k>>]}

\* the subdomain of the n-th ring handed in (n = 1, 2, ...)
RingSubdomain(n) == MaxRings + 2 - n

RECURSIVE SumLen(_, _)
SumLen(cs, n) == IF n = 0 THEN 0 ELSE SumLen(cs, n - 1) + Len(cs[n].rings)

\* the coils arguments drawn: up to MaxCoils coils with up to MaxRings rings
\* in all, the rings being distinct subdomains
RingCounts ==
    {c \in UNION {[1..m -> 0..MaxRings] : m \in 1..MaxCoils} :
        SumLen([k \in DOMAIN c |-> [rings |-> [x \in 1..c[k] |-> 0]]],
               Len(c)) <= MaxRings}

RingsOfCoil(c, k) ==
    LET before == SumLen([x \in DOMAIN c |-> [rings |-> [y \in 1..c[x] |-> 0]]],
                         k - 1)
    IN  [n \in 1..c[k] |-> RingSubdomain(before + n)]

CoilInputs ==
    UNION {
        {[k \in DOMAIN c |-> [rings |-> RingsOfCoil(c, k),
                              c_type |-> ty[k], c_value |-> v[k]]] :
            ty \in [DOMAIN c -> WeightTypes], v \in CoilValues(Len(c))} :
        c \in RingCounts}

RECURSIVE FlattenFromZero(_, _)
FlattenFromZero(cs, n) ==
    IF n = 0 THEN [physical_indices |-> <<>>, new_coils |-> <<>>]
    ELSE LET prev == FlattenFromZero(cs, n - 1)
             rings == cs[n].rings
         IN  [physical_indices |-> prev.physical_indices \o rings,
              new_coils |-> Append(prev.new_coils,
                                   [x \in 1..Len(rings) |-> x - 1])]

\* lines 651-659: the coils done so far are coils[1..n]
RECURSIVE Flatten(_, _)
Flatten(cs, n) ==
    IF n = 0 THEN [physical_indices |-> <<>>, new_coils |-> <<>>]
    ELSE LET prev == Flatten(cs, n - 1)
             k0 == Len(prev.physical_indices)
             rings == cs[n].rings
         IN  [physical_indices |-> prev.physical_indices \o rings,
              new_coils |-> Append(prev.new_coils,
                                   [x \in 1..Len(rings) |-> k0 + x - 1])]

\* lines 668-671: one right-hand side per ring, the ring's subdomain only
RingSources(physical_indices_) ==
    [n \in 1..Len(physical_indices_) |->
        (physical_indices_[n] :>
            <<v_ref * Sigma(physical_indices_[n]), 0>>)]

\* lines 713-718
DispatchNoElse(A_, b_, coil, weight_type, target_value, J_) ==
    IF weight_type = "current"
    THEN prescribe_current(A_, b_, coil, target_value)
    ELSE IF weight_type = "voltage"
    THEN prescribe_voltage(A_, b_, coil, target_value, v_ref, J_)
    ELSE [A |-> A_, b |-> b_, err |-> NoError]

Dispatch(A_, b_, coil, weight_type, target_value, J_) ==
    IF weight_type = "current"
    THEN prescribe_current(A_, b_, coil, target_value)
    ELSE IF weight_type = "voltage"
    THEN prescribe_voltage(A_, b_, coil, target_value, v_ref, J_)
    ELSE [A |-> A_, b |-> b_, err |-> IllegalWeightType(weight_type)]

\* variant: matrix.dat written on every path ('if io_submesh:' left out)
MatrixDumpedAlways(io) == TRUE

\* line 721: the condition under which matrix.dat is written
MatrixDumped(io) == io

\* line 723: exit() is a statement of the function body, at the indentation
\* of the 'if' above it, so it is executed on every path that reaches it
ExitCalled(io) == TRUE

InitPotential ==
    /\ pc = "start"
    /\ args = NoArgs
    /\ A = <<>> /\ b = <<>> /\ J = <<>>
    /\ err = NoError
    /\ log = <<>>
    /\ coils \in CoilInputs
    /\ io_submesh \in BOOLEAN
    /\ verbose \in BOOLEAN
    /\ env \in Envs
    /\ physical_indices = <<>> /\ new_coils = <<>> /\ phi_list = <<>>
    /\ files = <<>> /\ kc = 0 /\ outcome = NoOutcome
    /\ SolveIdle
    /\ HeatIdle /\ QuestIdle /\ JouleIdle /\ RefineIdle

\* lines 651-659
CP_Flatten ==
    /\ pc = "start"
    /\ LET r == Flatten(coils, Len(coils))
       IN  /\ physical_indices' = r.physical_indices
           /\ new_coils' = r.new_coils
    /\ pc' = "indexed"
    /\ UNCHANGED <<xvars, args, A, b, J, err, coils, io_submesh, verbose, env,
                   phi_list, files, kc, outcome, smvars, log>>

\* lines 668-681: the call of solve_maxwell, compute_residuals=False
CP_CallSolveMaxwell ==
    /\ pc = "indexed"
    /\ sm_f_list' = RingSources(physical_indices)
    /\ sm_residuals' = FALSE
    /\ sm_pc' = "called"
    /\ pc' = "in_solve_maxwell"
    /\ UNCHANGED <<xvars, args, A, b, J, err, uvars, sm_b_list, sm_phi_list,
                   sm_ret, log>>

\* line 673: phi_list receives the returned list; line 684 chooses the path
CP_SolveMaxwellReturned ==
    /\ pc = "in_solve_maxwell"
    /\ sm_pc = "returned"
    /\ phi_list' = sm_ret
    /\ sm_pc' = "idle"
    /\ kc' = 0
    /\ pc' = IF io_submesh /\ Len(sm_ret) > 0 THEN "write_phi" ELSE "get_J"
    /\ UNCHANGED <<xvars, args, A, b, J, err, coils, io_submesh, verbose, env,
                   physical_indices, new_coils, files, outcome,
                   sm_f_list, sm_residuals, sm_b_list, sm_phi_list, sm_ret,
                   log>>

\* lines 688-695: one pass of the loop writing phi%02d.xdmf
CP_WritePhi ==
    /\ pc = "write_phi"
    /\ kc < Len(phi_list)
    /\ files' = Append(files, PhiFileName(kc))
    /\ log' = Append(log, Event("write", kc, PhiFileName(kc)))
    /\ kc' = kc + 1
    /\ pc' = IF kc + 1 < Len(phi_list) THEN "write_phi" ELSE "get_J"
    /\ UNCHANGED <<xvars, args, A, b, J, err, coils, io_submesh, verbose, env,
                   physical_indices, new_coils, phi_list, outcome, smvars>>

\* lines 701-705
CP_GetJ ==
    /\ pc = "get_J"
    /\ \E J0 \in UninitMatrices(Len(phi_list)) :
          LET r == get_voltage_current_matrix(J0, phi_list, physical_indices,
                                              env.omega, v_ref)
          IN  /\ J' = r.J
              /\ err' = r.err
              /\ pc' = IF r.err = NoError THEN "allocate" ELSE "raised"
              /\ log' = IF r.err = NoError
                        THEN Append(log, Event("J", Len(phi_list), ""))
                        ELSE log
    /\ UNCHANGED <<xvars, args, A, b, uvars, smvars>>

\* lines 707-709: numpy.empty leaves the contents of A and b arbitrary
CP_Allocate ==
    /\ pc = "allocate"
    /\ \E A0 \in UninitMatrices(Len(phi_list)) :
          /\ A' = A0
          /\ b' = [i \in Idx(Len(phi_list)) |-> A0[i][0]]
    /\ kc' = 0
    /\ pc' = "dispatch"
    /\ UNCHANGED <<xvars, args, J, err, coils, io_submesh, verbose, env,
                   physical_indices, new_coils, phi_list, files, outcome,
                   smvars, log>>

\* lines 710-718: one pass of the loop over the coils
CP_Dispatch ==
    /\ pc = "dispatch"
    /\ kc < Len(new_coils)
    /\ LET weight_type == coils[kc + 1].c_type
           target_value == coils[kc + 1].c_value
           r == Dispatch(A, b, new_coils[kc + 1], weight_type, target_value, J)
       IN  /\ A' = r.A
           /\ b' = r.b
           /\ err' = r.err
           /\ pc' = IF r.err = NoError THEN "dispatch" ELSE "raised"
           /\ kc' = IF r.err = NoError THEN kc + 1 ELSE kc
           /\ log' = IF r.err = NoError
                     THEN Append(log, Event("prescribe", kc, weight_type))
                     ELSE log
    /\ UNCHANGED <<xvars, args, J, coils, io_submesh, verbose, env,
                   physical_indices, new_coils, phi_list, files, outcome,
                   smvars>>

\* lines 721-722
CP_WriteMatrix ==
    /\ pc = "dispatch"
    /\ kc = Len(new_coils)
    /\ IF MatrixDumped(io_submesh)
       THEN /\ files' = Append(files, "matrix.dat")
            /\ log' = Append(log, Event("write", 0, "matrix.dat"))
       ELSE UNCHANGED <<files, log>>
    /\ pc' = "after_dump"
    /\ UNCHANGED <<xvars, args, A, b, J, err, coils, io_submesh, verbose, env,
                   physical_indices, new_coils, phi_list, kc, outcome, smvars>>

\* numpy.linalg.solve(A, b), line 726, among the weight vectors of the model
WeightVals == {<<0, 0>>, <<1, 0>>, <<0, 1>>, <<1, 1>>}
WeightVecs(N) == [Idx(N) -> WeightVals]
Solutions(A_, b_) ==
    {w \in WeightVecs(Cardinality(DOMAIN A_)) : MatVec(A_, w) = b_}

\* lines 792-797: Phi = sum of c * phi over zip(phi_list, weights)
RECURSIVE Superpose(_, _, _)
Superpose(phis, w, n) ==
    IF n = 0 THEN [q \in Subdomains |-> CZero]
    ELSE LET prev == Superpose(phis, w, n - 1)
         IN  [q \in Subdomains |->
                 CAdd(prev[q], CMul(w[n - 1], phis[n].vec[q]))]

\* lines 723-805: exit(), and the statements that follow it
CP_ExitOrReturn ==
    /\ pc = "after_dump"
    /\ IF ExitCalled(io_submesh)
       THEN /\ outcome' = [NoOutcome EXCEPT !.kind = "exited"]
            /\ log' = Append(log, Event("exit", 0, ""))
            /\ err' = err
            /\ pc' = "terminated"
       ELSE LET sols == Solutions(A, b)
                weights == CHOOSE w \in sols : TRUE
            IN  IF sols = {}
                THEN /\ err' = [type |-> "LinAlgError",
                                msg |-> <<"Singular matrix">>]
                     /\ outcome' = outcome
                     /\ log' = log
                     /\ pc' = "raised"
                ELSE IF ~verbose       \* voltages is bound at line 755 only
                THEN /\ err' = [type |-> "UnboundLocalError",
                                msg |-> <<"local variable '", "voltages",
                                          "' referenced before assignment">>]
                     /\ outcome' = outcome
                     /\ log' = Append(log, Event("weights", 0, ""))
                     /\ pc' = "raised"
                ELSE /\ err' = err
                     /\ outcome' =
                           [kind |-> "returned",
                            weights |-> weights,
                            voltages |-> [i \in DOMAIN weights |->
                                             CScale(v_ref, weights[i])],
                            Phi |-> Superpose(phi_list, weights,
                                              Len(phi_list))]
                     /\ log' = Append(log, Event("weights", 0, ""))
                     /\ pc' = "returned"
    /\ UNCHANGED <<xvars, args, A, b, J, coils, io_submesh, verbose, env,
                   physical_indices, new_coils, phi_list, files, kc, smvars>>

Next ==
    \/ CP_Flatten
    \/ CP_CallSolveMaxwell
    \/ SM_BuildSystem
    \/ SM_SolveRing
    \/ SM_Return
    \/ CP_SolveMaxwellReturned
    \/ CP_WritePhi
    \/ CP_GetJ
    \/ CP_Allocate
    \/ CP_Dispatch
    \/ CP_WriteMatrix
    \/ CP_ExitOrReturn

Spec == InitPotential /\ [][Next]_vars

(***************************************************************************)
(* examples/test_heat.py: test_solve.                                      *)
(*                                                                         *)
(* A temperature field is known by its values at the four control points   *)
(* of _parameter_quest.  Times are whole numbers: t starts at 0.0 and only *)
(* ever has dt = 10.0 added, and the multiples of 10 up to 1000 and their  *)
(* sums are exact in double precision.                                     *)
(***************************************************************************)
ControlPoints == 1..4

\* lines 45-54: the target temperature of each control point
control_values == <<1580, 1495, 1511, 1540>>

background_temp == 1500
dt == 10
end_time == 1000

\* Constant(v) interpolated: the same value everywhere
Uniform(v) == [c \in ControlPoints |-> v]

\* problems.Crucible(): the problem, known by the two things the solves make
\* of it: the stationary field and the change of temperature per time unit
Problems ==
    {[heating |-> 1, steady |-> control_values],
     [heating |-> -2, steady |-> Uniform(1520)]}

TypeError(msg) == [type |-> "TypeError", msg |-> msg]

\* the parameters of test_solve (line 123)
TestSolveParameters == <<"stationary">>

\* Python's binding of the arguments of a call to the parameters (none of
\* which has a default): positional arguments bind from the left, and a
\* keyword naming a parameter that is already bound is an error
BindArguments(fn, params, positional, keywords) ==
    IF Len(positional) > Len(params)
    THEN [err |-> TypeError(<<fn, "() takes ", ToString(Len(params)),
                              " positional arguments but ",
                              ToString(Len(positional)), " were given">>),
          bound |-> <<>>]
    ELSE IF \E i \in 1..Len(positional) : params[i] \in DOMAIN keywords
    THEN [err |-> TypeError(
                     <<fn, "() got multiple values for argument '",
                       params[CHOOSE i \in 1..Len(positional) :
                                 params[i] \in DOMAIN keywords], "'">>),
          bound |-> <<>>]
    ELSE IF \E i \in (Len(positional) + 1)..Len(params) :
               params[i] \notin DOMAIN keywords
    THEN [err |-> TypeError(<<fn, "() missing required arguments">>),
          bound |-> <<>>]
    ELSE [err |-> NoError,
          bound |-> [i \in 1..Len(params) |->
                        IF i <= Len(positional) THEN positional[i]
                        ELSE keywords[params[i]]]]

\* solve(a == L, theta_reference, bcs=problem.theta_bcs_d, ...), lines 184-199
StationarySolve(pb) == pb.steady

\* the second solve, with the Dirichlet data replaced by theta_reference
\* (lines 217-231)
SecondPassSolve(pb, reference) == reference

\* ts.implicit_euler_step(Q, weak_F, theta_1, t, dt, ...): the field at t + dt
\* from the field theta_1 at t
implicit_euler_step(pb, theta_1_, t_, dt_) ==
    [c \in ControlPoints |-> theta_1_[c] + dt_ * pb.heating]

\* f.write(field) and f.write(field, t): one entry of the time series
XdmfEntry(field, tag) == [field |-> field, tag |-> tag]

StationaryExitSkipped == FALSE

\* line 208: exit(), not under any condition
StationaryExit == TRUE

LoopConditionInclusive(t_) == t_ <= end_time

\* line 249: while t < end_time
LoopCondition(t_) == t_ < end_time

\* lines 123-171 and the head of the branch taken (174, 242-244)
TS_Call ==
    /\ th_pc = "called"
    /\ LET call == BindArguments("test_solve", TestSolveParameters, <<>>,
                                 [n \in {"stationary"} |-> stationary])
       IN  IF call.err # NoError
           THEN /\ err' = call.err
                /\ th_pc' = "raised"
                /\ UNCHANGED <<t, theta_1>>
           ELSE /\ t' = 0
                /\ theta_1' = IF call.bound[1] THEN theta_1
                              ELSE Uniform(background_temp)
                /\ th_pc' = IF call.bound[1] THEN "stationary" ELSE "loop"
                /\ err' = err
    /\ UNCHANGED <<stationary, problem, theta, theta_reference, th_ret,
                   steps, xdmf, q_pc, questvars, joulevars, amrvars>>
    /\ UNCHANGED <<pc, args, A, b, J, log, uvars, smvars>>

\* lines 176-199
TS_StationarySolve ==
    /\ th_pc = "stationary"
    /\ theta_reference' = StationarySolve(problem)
    /\ log' = Append(log, Event("heat_solve", 1, "temperature"))
    /\ th_pc' = "solved"
    /\ UNCHANGED <<stationary, problem, t, theta_1, theta, th_ret, steps,
                   xdmf, q_pc, questvars, joulevars, amrvars>>
    /\ UNCHANGED <<pc, args, A, b, J, err, uvars, smvars>>

\* lines 201-204
TS_StationaryWrite ==
    /\ th_pc = "solved"
    /\ xdmf' = Append(xdmf, XdmfEntry(theta_reference, <<>>))
    /\ th_pc' = "written"
    /\ UNCHANGED <<stationary, problem, t, theta_1, theta, theta_reference,
                   th_ret, steps, q_pc, questvars, joulevars, amrvars>>
    /\ UNCHANGED <<pc, args, A, b, J, err, log, uvars, smvars>>

\* lines 206-240
TS_StationaryExit ==
    /\ th_pc = "written"
    /\ IF StationaryExit
       THEN /\ th_pc' = "terminated"
            /\ log' = Append(log, Event("exit", 0, ""))
            /\ UNCHANGED <<theta, th_ret, xdmf>>
       ELSE /\ theta' = SecondPassSolve(problem, theta_reference)
            /\ log' = Append(log, Event("heat_solve", 2, ""))
            /\ xdmf' = Append(xdmf, XdmfEntry(theta_reference, <<>>))
            /\ th_ret' = theta'
            /\ th_pc' = "returned"
    /\ UNCHANGED <<stationary, problem, t, theta_1, theta_reference, steps,
                   q_pc, questvars, joulevars, amrvars>>
    /\ UNCHANGED <<pc, args, A, b, J, err, uvars, smvars>>

\* lines 249-262
TS_Step ==
    /\ th_pc = "loop"
    /\ LoopCondition(t)
    /\ theta' = implicit_euler_step(problem, theta_1, t, dt)
    /\ steps' = Append(steps, [prev |-> theta_1, t |-> t, dt |-> dt,
                               theta |-> theta'])
    /\ th_pc' = "stepped"
    /\ UNCHANGED <<stationary, problem, t, theta_1, theta_reference, th_ret,
                   xdmf, q_pc, questvars, joulevars, amrvars>>
    /\ UNCHANGED <<pc, args, A, b, J, err, log, uvars, smvars>>

AssignSkipped(target, source) == target

\* line 263: theta_1.assign(theta) gives theta_1 the values of theta
Assign(target, source) == source

\* lines 263-267
TS_Record ==
    /\ th_pc = "stepped"
    /\ theta_1' = Assign(theta_1, theta)
    /\ xdmf' = Append(xdmf, XdmfEntry(theta_1', <<t>>))
    /\ t' = t + dt
    /\ th_pc' = "loop"
    /\ UNCHANGED <<stationary, problem, theta, theta_reference, th_ret,
                   steps, q_pc, questvars, joulevars, amrvars>>
    /\ UNCHANGED <<pc, args, A, b, J, err, log, uvars, smvars>>

\* lines 249 and 268
TS_Return ==
    /\ th_pc = "loop"
    /\ ~LoopCondition(t)
    /\ th_ret' = None
    /\ th_pc' = "returned"
    /\ UNCHANGED <<stationary, problem, t, theta_1, theta, theta_reference,
                   steps, xdmf, q_pc, questvars, joulevars, amrvars>>
    /\ UNCHANGED <<pc, args, A, b, J, err, log, uvars, smvars>>

(***************************************************************************)
(* examples/test_heat.py: _parameter_quest.                                *)
(***************************************************************************)
GridPoints == 11
GridStep == 500

\* lines 40-43: product(flux0, flux1), in the order it yields the pairs
search_space ==
    [n \in 1..(GridPoints * GridPoints) |->
        <<GridStep * ((n - 1) \div GridPoints),
          GridStep * ((n - 1) % GridPoints)>>]

tol == 20

Abs(x) == IF x < 0 THEN -x ELSE x

\* line 69: the deviation at each control point
Dev(th) == [c \in ControlPoints |-> th[c] - control_values[c]]

RECURSIVE SumSquares(_, _)
SumSquares(dev, n) ==
    IF n = 0 THEN 0 ELSE SumSquares(dev, n - 1) + dev[n] * dev[n]

\* line 72: numpy.linalg.norm(dev), kept as its square; the square root is
\* increasing, so norms compare as their squares do
Norm(dev) == SumSquares(dev, Len(dev))

\* line 73: not best_match or dev_norm < best_match_norm (a pair of fluxes
\* is a non-empty tuple, which Python takes as true whatever its entries)
NewBestMatch(best, best_norm, dev_norm) ==
    best = None \/ dev_norm < best_norm

\* line 78: all(abs(dev) < tol)
Success(dev) == \A c \in DOMAIN dev : Abs(dev[c]) < tol

\* lines 37-59
PQ_Start ==
    /\ q_pc = "called"
    /\ first' = TRUE
    /\ best_match' = None
    /\ best_match_norm' = None
    /\ q_pc' = "loop"
    /\ UNCHANGED <<heatvars, q_i, successes, reported, joulevars, amrvars>>
    /\ UNCHANGED <<pc, args, A, b, J, err, log, uvars, smvars>>

\* lines 60-92: one pass of the loop over search_space, with the call of
\* test_solve it makes
PQ_Candidate ==
    /\ q_pc = "loop"
    /\ q_i < Len(search_space)
    /\ LET p == search_space[q_i + 1]
           flux == [upper |-> p[1], crucible |-> p[2]]
           call == BindArguments("test_solve", TestSolveParameters,
                                 <<flux>>, [n \in {"stationary"} |-> TRUE])
           reference == StationarySolve(problem)
           returned == SecondPassSolve(problem, reference)
           dev == Dev(returned)
           dev_norm == Norm(dev)
           better == NewBestMatch(best_match, best_match_norm, dev_norm)
       IN  IF call.err # NoError
           THEN /\ err' = call.err
                /\ q_pc' = "raised"
                /\ UNCHANGED <<theta_reference, theta, theta_1, xdmf, log,
                               questvars>>
           ELSE IF StationaryExit
           THEN /\ theta_reference' = reference
                /\ xdmf' = Append(xdmf, XdmfEntry(reference, <<>>))
                /\ log' = log \o <<Event("heat_solve", 1, "temperature"),
                                   Event("exit", 0, "")>>
                /\ q_pc' = "terminated"
                /\ UNCHANGED <<err, theta, theta_1, questvars>>
           ELSE /\ theta_reference' = reference
                /\ theta' = returned
                /\ xdmf' = xdmf \o <<XdmfEntry(reference, <<>>),
                                     XdmfEntry(reference, <<>>)>>
                /\ log' = log \o <<Event("heat_solve", 1, "temperature"),
                                   Event("heat_solve", 2, "")>>
                /\ best_match' = IF better THEN p ELSE best_match
                /\ best_match_norm' =
                      IF better THEN dev_norm ELSE best_match_norm
                /\ reported' = IF better THEN Append(reported, p)
                               ELSE reported
                /\ successes' = IF Success(dev) THEN Append(successes, p)
                                ELSE successes
                /\ theta_1' = returned
                /\ first' = FALSE
                /\ q_i' = q_i + 1
                /\ q_pc' = IF q_i' = Len(search_space) THEN "returned"
                           ELSE "loop"
                /\ err' = err
    /\ UNCHANGED <<th_pc, stationary, problem, t, th_ret, steps, joulevars,
                   amrvars>>
    /\ UNCHANGED <<pc, args, A, b, J, uvars, smvars>>

InitHeat ==
    /\ pc = "test_heat"
    /\ args = NoArgs
    /\ A = <<>> /\ b = <<>> /\ J = <<>>
    /\ err = NoError
    /\ log = <<>>
    /\ PipelineIdle
    /\ SolveIdle
    /\ JouleIdle /\ RefineIdle
    /\ problem \in Problems
    /\ t = 0
    /\ theta_1 = None /\ theta = None /\ theta_reference = None
    /\ th_ret = None /\ steps = <<>> /\ xdmf = <<>>
    /\ q_i = 0 /\ first = TRUE /\ best_match = None
    /\ best_match_norm = None /\ successes = <<>> /\ reported = <<>>
    /\ \/ th_pc = "called" /\ stationary \in BOOLEAN /\ q_pc = "idle"
       \/ th_pc = "idle" /\ stationary = FALSE /\ q_pc = "called"

NextHeat ==
    \/ TS_Call
    \/ TS_StationarySolve
    \/ TS_StationaryWrite
    \/ TS_StationaryExit
    \/ TS_Step
    \/ TS_Record
    \/ TS_Return
    \/ PQ_Start
    \/ PQ_Candidate

SpecHeat == InitHeat /\ [][NextHeat]_vars

(***************************************************************************)
(* compute_joule(Phi, voltages, omega, Sigma, Mu, subdomain_indices),      *)
(* lines 844-919.  Phi is a pair of real fields, here one function         *)
(* subdomain -> <<Phi[0], Phi[1]>>; an entry of joule_source is an         *)
(* expression over the mesh, here its value in each subdomain, a fraction. *)
(***************************************************************************)
MaxIndices == 2

\* 2*pi*r in subdomain q (line 865): the unit
TwoPiR(q) == 1

Fraction(num, den) == [num |-> num, den |-> den]

JouleEntryDifference(sigma_i, E_r, E_i) ==
    [q \in DOMAIN E_r |->
        Fraction(sigma_i * (E_r[q] * E_r[q] - E_i[q] * E_i[q]), 2)]

\* line 900: 0.5 * Sigma[i] * (E_r*E_r + E_i*E_i)
JouleEntry(sigma_i, E_r, E_i) ==
    [q \in DOMAIN E_r |->
        Fraction(sigma_i * (E_r[q] * E_r[q] + E_i[q] * E_i[q]), 2)]

\* lines 895-900: the body of the loop, for the index i
JouleOf(Phi, voltages, omega, Sigma_, i) ==
    LET E_r0 == [q \in DOMAIN Phi |-> omega * Phi[q][2]]
        E_i0 == [q \in DOMAIN Phi |-> -omega * Phi[q][1]]
        E_r == IF i \in DOMAIN voltages
               THEN [q \in DOMAIN Phi |->
                        E_r0[q] + (voltages[i][1] \div TwoPiR(q))]
               ELSE E_r0
        E_i == IF i \in DOMAIN voltages
               THEN [q \in DOMAIN Phi |->
                        E_i0[q] + (voltages[i][2] \div TwoPiR(q))]
               ELSE E_i0
    IN  JouleEntry(Sigma_[i], E_r, E_i)

\* lines 864-900: the dictionary after the first n indices
RECURSIVE JouleLoop(_, _, _, _, _, _)
JouleLoop(Phi, voltages, omega, Sigma_, subdomain_indices, n) ==
    IF n = 0 THEN <<>>
    ELSE LET prev == JouleLoop(Phi, voltages, omega, Sigma_,
                               subdomain_indices, n - 1)
             i == subdomain_indices[n]
         IN  [k \in DOMAIN prev \cup {i} |->
                 IF k = i THEN JouleOf(Phi, voltages, omega, Sigma_, i)
                 ELSE prev[k]]

compute_joule(Phi, voltages, omega, Sigma_, subdomain_indices) ==
    JouleLoop(Phi, voltages, omega, Sigma_, subdomain_indices,
              Len(subdomain_indices))

\* real fields Phi[0], Phi[1], of either sign
JoulePhis ==
    {[q \in Subdomains |-> <<q - 2, 1 - q>>],
     [q \in Subdomains |-> <<0, 3>>]}

\* voltages: subdomain index -> complex voltage, for any set of keys
JouleVoltages ==
    UNION {{[i \in keys |-> <<-i, 2>>], [i \in keys |-> <<3, i - 3>>]} :
              keys \in SUBSET Subdomains}

\* conductivities, zero in a nonconductor
JouleSigmas ==
    {[p \in Subdomains |-> Sigma(p)],
     [p \in Subdomains |-> IF p = 1 THEN 0 ELSE 3]}

JouleIndexLists == UNION {[1..m -> Subdomains] : m \in 0..MaxIndices}

InitJoule ==
    /\ pc = "call"
    /\ args = NoArgs
    /\ A = <<>> /\ b = <<>> /\ J = <<>>
    /\ err = NoError
    /\ log = <<>>
    /\ PipelineIdle
    /\ SolveIdle
    /\ HeatIdle /\ QuestIdle /\ RefineIdle
    /\ \E Phi \in JoulePhis, voltages \in JouleVoltages, omega \in {1, 2},
          Sigma_ \in JouleSigmas, subdomain_indices \in JouleIndexLists :
          jargs = [Phi |-> Phi, voltages |-> voltages, omega |-> omega,
                   Sigma |-> Sigma_, subdomain_indices |-> subdomain_indices]
    /\ joule_source = None

CallComputeJoule ==
    /\ pc = "call"
    /\ joule_source' = compute_joule(jargs.Phi, jargs.voltages, jargs.omega,
                                     jargs.Sigma, jargs.subdomain_indices)
    /\ pc' = "returned"
    /\ UNCHANGED <<heatvars, q_pc, questvars, jargs, amrvars>>
    /\ UNCHANGED <<args, A, b, J, err, log, uvars, smvars>>

NextJoule == CallComputeJoule

SpecJoule == InitJoule /\ [][NextJoule]_vars

(***************************************************************************)
(* The entry points together: compute_potential, a direct call of          *)
(* solve_maxwell, test_solve and _parameter_quest.                         *)
(***************************************************************************)
InitProgram == InitPotential \/ InitSolve \/ InitHeat

NextProgram ==
    \/ Next
    \/ SM_Residuals
    \/ NextHeat

SpecProgram == InitProgram /\ [][NextProgram]_vars

(***************************************************************************)
(* _adaptive_mesh_refinement(dx, phi, mu, sigma, omega, conv, voltages),   *)
(* lines 978-1004, on one process (MPI.sum and MPI.max over one process    *)
(* give back their argument).  eta is the array of the error indicators,   *)
(* one per cell, the cells numbered from 0.                                *)
(***************************************************************************)
MaxCells == 4
MaxEta == 2

\* what _error_estimator returns (lines 1044-1048): h * sqrt(K) >= 0 per
\* cell, for a mesh of at least one cell
EtaInputs == UNION {[Idx(n) -> 0..MaxEta] : n \in 1..MaxCells}

\* the list xs with x put before the first element smaller than x
RECURSIVE InsertDescending(_, _)
InsertDescending(xs, x) ==
    IF xs = <<>> THEN <<x>>
    ELSE IF x > Head(xs) THEN <<x>> \o xs
    ELSE <<Head(xs)>> \o InsertDescending(Tail(xs), x)

\* sorted(eta, reverse=True), line 990: the first n entries of eta sorted
RECURSIVE SortedDescending(_, _)
SortedDescending(eta_, n) ==
    IF n = 0 THEN <<>>
    ELSE InsertDescending(SortedDescending(eta_, n - 1), eta_[n - 1])

\* int(len(eta) * REFINE_RATIO) with REFINE_RATIO = 0.5 (lines 988, 990)
RefineIndex(n) == n \div 2

\* line 990: the entry of that (0-based) index in the sorted list
Threshold(eta_) ==
    SortedDescending(eta_, Cardinality(DOMAIN eta_))
        [RefineIndex(Cardinality(DOMAIN eta_)) + 1]

MarkedFromThreshold(e, e0) == e >= e0

\* line 993: eta[c.index()] > eta_0
Marked(e, e0) == e > e0

AmrExitSkipped == FALSE

\* line 999: exit(), not under any condition
AmrExit == TRUE

\* lines 980-986: the indicators of the cells
AMR_Estimate ==
    /\ amr_pc = "called"
    /\ \E e \in EtaInputs : eta' = e
    /\ amr_pc' = "estimated"
    /\ UNCHANGED <<eta_0, cell_markers, refinements>>
    /\ UNCHANGED <<heatvars, q_pc, questvars, joulevars>>
    /\ UNCHANGED <<pc, args, A, b, J, err, log, uvars, smvars>>

\* lines 988-993
AMR_Mark ==
    /\ amr_pc = "estimated"
    /\ eta_0' = Threshold(eta)
    /\ cell_markers' = [c \in DOMAIN eta |-> Marked(eta[c], eta_0')]
    /\ amr_pc' = "marked"
    /\ UNCHANGED <<eta, refinements>>
    /\ UNCHANGED <<heatvars, q_pc, questvars, joulevars>>
    /\ UNCHANGED <<pc, args, A, b, J, err, log, uvars, smvars>>

\* line 995
AMR_Refine ==
    /\ amr_pc = "marked"
    /\ refinements' = Append(refinements, cell_markers)
    /\ amr_pc' = "refined"
    /\ UNCHANGED <<eta, eta_0, cell_markers>>
    /\ UNCHANGED <<heatvars, q_pc, questvars, joulevars>>
    /\ UNCHANGED <<pc, args, A, b, J, err, log, uvars, smvars>>

\* lines 997-1004
AMR_Exit ==
    /\ amr_pc = "refined"
    /\ IF AmrExit
       THEN /\ amr_pc' = "terminated"
            /\ log' = Append(log, Event("exit", 0, ""))
       ELSE /\ amr_pc' = "returned"
            /\ log' = log
    /\ UNCHANGED <<eta, eta_0, cell_markers, refinements>>
    /\ UNCHANGED <<heatvars, q_pc, questvars, joulevars>>
    /\ UNCHANGED <<pc, args, A, b, J, err, uvars, smvars>>

InitRefine ==
    /\ pc = "_adaptive_mesh_refinement"
    /\ args = NoArgs
    /\ A = <<>> /\ b = <<>> /\ J = <<>>
    /\ err = NoError
    /\ log = <<>>
    /\ PipelineIdle
    /\ SolveIdle
    /\ HeatIdle /\ QuestIdle /\ JouleIdle
    /\ amr_pc = "called" /\ eta = <<>> /\ eta_0 = None
    /\ cell_markers = <<>> /\ refinements = <<>>

NextRefine ==
    \/ AMR_Estimate
    \/ AMR_Mark
    \/ AMR_Refine
    \/ AMR_Exit

SpecRefine == InitRefine /\ [][NextRefine]_vars

(***************************************************************************)
(* Properties of the direct calls (checked under SpecPrescribe).           *)
(***************************************************************************)
Called(fn) == pc \in {"returned", "raised"} /\ args.fn = fn
NRings == Len(args.coil_rings)
Ring(k) == args.coil_rings[k + 1]          \* c_k, k = 0..n-1

\* C1: after prescribe_current(A, b, coil_rings, current), for any prior
\* contents of A and b, every row i in coil_rings has A[i][i] = 1 and
\* A[i][j] = 0 for j # i, and b[i] = current.
C1_CurrentRowsAreIdentity ==
    Called("prescribe_current") =>
        \A i \in Range(args.coil_rings) :
            /\ A[i][i] = COne
            /\ \A j \in DOMAIN A[i] : j # i => A[i][j] = CZero
            /\ b[i] = args.value

\* C3: after prescribe_voltage on a coil of n >= 1 rings c_0..c_{n-1}: for
\* k < n-1 row c_k of A is J[c_k] - J[c_{k+1}] and b[c_k] = 0; row c_{n-1}
\* is v_ref in the coil's columns and 0 elsewhere, with b[c_{n-1}] = voltage.
C3_VoltageRows ==
    (Called("prescribe_voltage") /\ NRings >= 1) =>
        /\ err = NoError
        /\ \A k \in 0..(NRings - 2) :
              /\ \A j \in DOMAIN J :
                    A[Ring(k)][j] = CSub(J[Ring(k)][j], J[Ring(k + 1)][j])
              /\ b[Ring(k)] = CZero
        /\ \A j \in DOMAIN J :
              A[Ring(NRings - 1)][j] =
                  IF j \in Range(args.coil_rings)
                  THEN CReal(args.v_ref) ELSE CZero
        /\ b[Ring(NRings - 1)] = args.value

C3_Witness ==
    /\ Called("prescribe_voltage")
    /\ NRings = 3
    /\ Cardinality(DOMAIN A) = 3
    /\ args.A0[0][0] = <<2, 1>>
    /\ args.coil_rings = <<2, 0, 1>>
    /\ J[0][1] # CZero

\* the rows of the coil, as equations on a weight vector w
SatisfiesCoilRows(w) ==
    \A i \in Range(args.coil_rings) : Dot(A[i], w) = b[i]

\* C4: any weights satisfying the rows written by prescribe_voltage give the
\* same current (J*weights)[k] in every ring of the coil, and
\* v_ref * (sum of the weights over the coil's rings) = voltage.
C4_VoltageRowsMeaning ==
    (Called("prescribe_voltage") /\ NRings >= 1) =>
        \A w \in WeightVecs(Cardinality(DOMAIN A)) :
            SatisfiesCoilRows(w) =>
                /\ \A p, q \in Range(args.coil_rings) :
                      MatVec(J, w)[p] = MatVec(J, w)[q]
                /\ CScale(args.v_ref, SumRings(w, args.coil_rings))
                      = args.value

C4_Witness ==
    /\ Called("prescribe_voltage")
    /\ NRings = 3
    /\ \E w \in WeightVecs(Cardinality(DOMAIN A)) :
          /\ SatisfiesCoilRows(w)
          /\ MatVec(J, w)[0] # CZero
          /\ MatVec(J, w)[0] = MatVec(J, w)[2]

\* C5: prescribe_power fails with 'Not yet implemented.' for every input and
\* leaves A and b as they were.
C5_PowerAlwaysFails ==
    Called("prescribe_power") =>
        /\ pc = "raised"
        /\ err = NotYetImplemented
        /\ A = args.A0
        /\ b = args.b0

C5_Witness ==
    /\ Called("prescribe_power")
    /\ NRings = 2
    /\ args.A0[0][0] = <<3, 1>>
    /\ err.msg = <<"Not yet implemented.">>

(***************************************************************************)
(* Properties of compute_potential (checked under Spec).                   *)
(***************************************************************************)
SystemBuilt == pc \in {"after_dump", "terminated", "returned"}
Ended == pc \in {"terminated", "raised", "returned"}

\* an exception left the dispatch loop (get_voltage_current_matrix raises
\* only when there is no ring at all)
DispatchRaised == pc = "raised" /\ Len(phi_list) > 0
OffendingType == coils[kc + 1].c_type

Logged(ev) == \E n \in DOMAIN log : log[n].ev = ev

\* C2: for a coil of type 'current' with target I, the weights solving
\* A*weights = b give (J*weights)[k] = I in every ring k of the coil.
C2_CurrentCoilCarriesTarget ==
    SystemBuilt =>
        \A w \in Solutions(A, b) :
            \A c \in DOMAIN coils :
                coils[c].c_type = "current" =>
                    \A k \in Range(new_coils[c]) :
                        MatVec(J, w)[k] = coils[c].c_value

\* C6: a coil of type 'power' is dispatched to prescribe_power and fails with
\* 'Not yet implemented.', which is not the illegal-weight-type error.
C6_PowerCoilNotImplemented ==
    (DispatchRaised /\ OffendingType = "power") =>
        /\ err = NotYetImplemented
        /\ err # IllegalWeightType("power")

\* C7: a coil whose type is none of 'current', 'voltage', 'power' is a fatal
\* error whose message holds the offending value; after it there is no
\* weights solve, no matrix.dat and no result, whatever was processed before.
C7_IllegalTypeIsFatal ==
    /\ (DispatchRaised
        /\ OffendingType \notin {"current", "voltage", "power"}) =>
            /\ err = IllegalWeightType(OffendingType)
            /\ \E n \in DOMAIN err.msg : err.msg[n] = OffendingType
            /\ "matrix.dat" \notin Range(files)
            /\ ~Logged("weights")
            /\ outcome = NoOutcome
    /\ (pc \in {"after_dump", "terminated", "returned"}
        \/ "matrix.dat" \in Range(files)
        \/ outcome # NoOutcome) =>
            \A c \in DOMAIN coils :
                coils[c].c_type \in {"current", "voltage", "power"}

C7_Witness ==
    /\ DispatchRaised
    /\ kc = 1
    /\ OffendingType = "resistance"
    /\ coils[1].c_type = "voltage"
    /\ io_submesh
    /\ Len(files) = 2
    /\ err.msg = <<"Illegal weight type '", "'", "resistance", "'", "'.">>

\* C8: without io_submesh and with every coil of type 'current' or 'voltage'
\* (each with a ring), compute_potential does not terminate the process: it
\* solves for the weights and returns (Phi, voltages), voltages =
\* v_ref*weights, for either value of verbose.
C8_ReturnsWithoutSubmesh ==
    (/\ Ended
     /\ ~io_submesh
     /\ \A c \in DOMAIN coils :
           /\ coils[c].c_type \in {"current", "voltage"}
           /\ Len(coils[c].rings) >= 1
     /\ Solutions(A, b) # {}) =>
        /\ pc = "returned"
        /\ outcome.kind = "returned"
        /\ outcome.voltages =
              [i \in DOMAIN outcome.weights |->
                  CScale(v_ref, outcome.weights[i])]

\* the steps of a run with io_submesh that reaches the exit, in order
DiagnosticRun ==
    LET N == Len(physical_indices)
    IN  <<Event("build_system", N, "")>>
        \o [k \in 1..N |-> Event("solve", k - 1, PhiName(k - 1))]
        \o [k \in 1..N |-> Event("write", k - 1, PhiFileName(k - 1))]
        \o <<Event("J", N, "")>>
        \o [c \in 1..Len(coils) |-> Event("prescribe", c - 1, coils[c].c_type)]
        \o <<Event("write", 0, "matrix.dat"), Event("exit", 0, "")>>

\* C9: with io_submesh, compute_potential writes one phi%02d.xdmf per ring in
\* ring order, then computes J and builds (A, b), then writes matrix.dat,
\* then terminates the process; the weights solve, the superposition and the
\* return are never reached, and matrix.dat is written on this path only.
C9_DiagnosticPath ==
    /\ "matrix.dat" \in Range(files) => io_submesh
    /\ io_submesh =>
          /\ ~Logged("weights")
          /\ outcome.kind \in {"none", "exited"}
          /\ pc # "returned"
    /\ (io_submesh /\ pc \in {"after_dump", "terminated"}) =>
          /\ files = [k \in 1..Len(physical_indices) |-> PhiFileName(k - 1)]
                     \o <<"matrix.dat">>
          /\ A # <<>> /\ J # <<>>
    /\ (io_submesh /\ pc = "after_dump") => ENABLED CP_ExitOrReturn
    /\ (io_submesh /\ pc = "terminated") =>
          /\ outcome.kind = "exited"
          /\ log = DiagnosticRun

C9_Witness ==
    /\ io_submesh
    /\ pc = "terminated"
    /\ Len(coils) = 2
    /\ files = <<"phi00.xdmf", "phi01.xdmf", "phi02.xdmf", "matrix.dat">>

(***************************************************************************)
(* Properties of solve_maxwell (checked under SpecSolve).                  *)
(***************************************************************************)
\* the list a call with compute_residuals=False returns
ReturnedWithoutResiduals ==
    [k \in 1..Len(sm_f_list) |->
        [name |-> PhiName(k - 1),
         vec |-> KrylovSolve(env, AssembleRhs(sm_f_list[k]))]]

SolveEnded == sm_pc \in {"returned", "raised"}

WithoutResidualsReturnsList ==
    (SolveEnded /\ ~sm_residuals) =>
        sm_pc = "returned" /\ sm_ret = ReturnedWithoutResiduals

\* C10: solve_maxwell with compute_residuals=True returns the same ordered
\* list of solutions as with compute_residuals=False: the residual check
\* neither changes the result nor prevents it from being returned.
C10_ResidualCheckIsDiagnosticOnly ==
    (SolveEnded /\ sm_residuals) =>
        /\ sm_pc = "returned"
        /\ sm_ret = ReturnedWithoutResiduals

\* C11: solve_maxwell returns a list with exactly len(f_list) solutions, the
\* k-th one solved against the right-hand side assembled from f_list[k], in
\* order, none skipped or duplicated, for any f_list (the empty one too).
C11_OneSolutionPerRhsInOrder ==
    SolveEnded =>
        /\ sm_pc = "returned"
        /\ Len(sm_ret) = Len(sm_f_list)
        /\ \A k \in 1..Len(sm_f_list) :
              /\ sm_ret[k].name = PhiName(k - 1)
              /\ sm_ret[k].vec = KrylovSolve(env, BuildRhsList(sm_f_list)[k])

(***************************************************************************)
(* Properties of examples/test_heat.py (checked under SpecHeat).           *)
(***************************************************************************)
Transient == th_pc \notin {"idle", "called"} /\ ~stationary

\* C12: the transient heat solve (dt = 10.0, end_time = 1000.0, t from 0)
\* executes exactly 100 implicit Euler steps and then terminates normally.
C12_HundredSteps ==
    Transient =>
        /\ th_pc \in {"loop", "stepped", "returned"}
        /\ err = NoError
        /\ Len(steps) <= 100
        /\ th_pc = "returned" => Len(steps) = 100 /\ t = end_time
        /\ (th_pc = "loop" /\ Len(steps) = 100) =>
              ENABLED TS_Return /\ ~ENABLED TS_Step
        /\ (th_pc = "loop" /\ Len(steps) < 100) => ENABLED TS_Step

C12_Witness ==
    /\ Transient
    /\ th_pc = "returned"
    /\ Len(steps) = 100
    /\ problem.heating = -2

\* C13: in the transient heat solve the time tags written to the output
\* are 10.0, 20.0, ..., 1000.0: the field produced by the k-th step is
\* written with tag k*dt, and no tag is skipped or duplicated.
C13_TagsAreStepTimes ==
    Transient =>
        /\ \A k \in 1..Len(xdmf) :
              /\ xdmf[k].field = steps[k].theta
              /\ xdmf[k].tag = <<k * dt>>
        /\ th_pc = "returned" => Len(xdmf) = 100

Stationary == th_pc \notin {"idle", "called"} /\ stationary

HeatSolves == SelectSeq(log, LAMBDA e : e.ev = "heat_solve")

\* C14: the stationary heat solve performs exactly one linear solve and
\* exactly one write to temperature.xdmf and then terminates the process;
\* the second pass after the exit is never executed and the function never
\* returns a temperature field.
C14_SolveOnceAndStop ==
    Stationary =>
        /\ th_pc \in {"stationary", "solved", "written", "terminated"}
        /\ th_ret = None /\ theta = None
        /\ Len(HeatSolves) = (IF th_pc = "stationary" THEN 0 ELSE 1)
        /\ Len(xdmf) = (IF th_pc \in {"stationary", "solved"} THEN 0 ELSE 1)
        /\ th_pc = "stationary" => ENABLED TS_StationarySolve
        /\ th_pc = "solved" => ENABLED TS_StationaryWrite
        /\ th_pc = "written" => ENABLED TS_StationaryExit
        /\ th_pc = "terminated" =>
              /\ log = <<Event("heat_solve", 1, "temperature"),
                         Event("exit", 0, "")>>
              /\ xdmf = <<XdmfEntry(StationarySolve(problem), <<>>)>>
              /\ ~ENABLED NextHeat

C14_Witness ==
    /\ Stationary
    /\ th_pc = "terminated"
    /\ Len(xdmf) = 1
    /\ Len(HeatSolves) = 1
    /\ xdmf[1].field = control_values

QuestOver == q_pc \in {"raised", "terminated", "returned"}

\* the candidates whose pass of the loop has begun and is over
Evaluated ==
    1..(IF q_pc \in {"raised", "terminated"} THEN q_i + 1 ELSE q_i)

\* the field the stationary solve gives for candidate k (the problem does
\* not take the candidate's fluxes)
SolvedField(k) == StationarySolve(problem)

\* C15: _parameter_quest evaluates every one of the 11 x 11 = 121 candidate
\* flux pairs, re-solving the stationary problem and comparing the control
\* points for each, and never stops before the last candidate.
C15_ExhaustiveSearch ==
    /\ Len(search_space) = 121
    /\ \A n \in 1..Len(search_space) :
          /\ search_space[n][1] \in {500 * k : k \in 0..10}
          /\ search_space[n][2] \in {500 * k : k \in 0..10}
          /\ \A m \in 1..Len(search_space) :
                search_space[m] = search_space[n] => m = n
    /\ QuestOver =>
          /\ q_pc = "returned"
          /\ q_i = Len(search_space)
          /\ Len(HeatSolves) >= Len(search_space)

\* C16: a candidate whose solved field equals the target at all four control
\* points (zero deviation) is flagged as a success and reported as the new
\* best match when it is evaluated, whatever was evaluated before it.
C16_ExactMatchIsSuccessAndBest ==
    \A k \in Evaluated :
        SolvedField(k) = control_values =>
            /\ search_space[k] \in Range(successes)
            /\ search_space[k] \in Range(reported)

\* the smallest deviation norm among the candidates evaluated so far
MinNorm ==
    CHOOSE v \in {Norm(Dev(SolvedField(k))) : k \in Evaluated} :
        \A k \in Evaluated : v <= Norm(Dev(SolvedField(k)))

\* C17: after each candidate is processed best_match_norm is the minimum
\* deviation norm over the candidates processed so far and best_match is a
\* candidate attaining it, the earliest one on a tie; only the first
\* candidate takes the 'no prior best' branch.
C17_BestSoFar ==
    Evaluated # {} =>
        /\ best_match # None
        /\ best_match_norm = MinNorm
        /\ \E k \in Evaluated :
              /\ best_match = search_space[k]
              /\ Norm(Dev(SolvedField(k))) = MinNorm
              /\ \A j \in 1..(k - 1) : Norm(Dev(SolvedField(j))) > MinNorm
        /\ reported[1] = search_space[1]

(***************************************************************************)
(* Properties of get_voltage_current_matrix (checked under Spec).          *)
(***************************************************************************)
\* -i * omega * sigma_k * (integral of phi_l over ring k)
Mutual(k, l) ==
    LET pk == physical_indices[k + 1]
    IN  CMul(<<0, -env.omega>>, CScale(Sigma(pk), phi_list[l + 1].vec[pk]))

\* v_ref/(2*pi) * (integral of sigma/r over ring l)
Self(l) == <<v_ref * Sigma(physical_indices[l + 1]), 0>>

\* C18: get_voltage_current_matrix returns a square N x N matrix J, N the
\* number of rings, with every entry assigned: off the diagonal J[k][l] is
\* the mutual term alone, on the diagonal it is the mutual term plus the
\* self term, added exactly once (also for N = 1).
C18_VoltageCurrentMatrix ==
    Logged("J") =>
        /\ DOMAIN J = Idx(Len(phi_list))
        /\ \A k \in Idx(Len(phi_list)) :
              /\ DOMAIN J[k] = Idx(Len(phi_list))
              /\ \A l \in Idx(Len(phi_list)) :
                    J[k][l] = IF k = l THEN CAdd(Mutual(k, l), Self(l))
                              ELSE Mutual(k, l)

C18_Witness ==
    /\ Logged("J")
    /\ Len(phi_list) = 3
    /\ J[0][1] # CZero
    /\ J[2][2] # Self(2)
    /\ J[0][1] # J[1][0]

(***************************************************************************)
(* Properties of compute_joule (checked under SpecJoule).                  *)
(***************************************************************************)
\* the field E at subdomain q for index i: omega*Phi[1], -omega*Phi[0],
\* plus the voltage of i when voltages has one
ElectricField(i, q) ==
    LET V == IF i \in DOMAIN jargs.voltages THEN jargs.voltages[i]
             ELSE <<0, 0>>
    IN  <<jargs.omega * jargs.Phi[q][2] + V[1],
          V[2] - jargs.omega * jargs.Phi[q][1]>>

\* C19: compute_joule returns one entry for each index in subdomain_indices
\* and no other; each entry is 0.5*Sigma[i]*(E_r^2 + E_i^2), never negative
\* for real Phi, any voltages and non-negative Sigma[i]; the voltage term
\* enters E_r and E_i exactly for the indices that are keys of voltages.
C19_JouleSource ==
    pc = "returned" /\ jargs # NoJouleArgs =>
        /\ DOMAIN joule_source = Range(jargs.subdomain_indices)
        /\ \A i \in DOMAIN joule_source : \A q \in Subdomains :
              LET E == ElectricField(i, q)
              IN  /\ joule_source[i][q].den = 2
                  /\ joule_source[i][q].num =
                        jargs.Sigma[i] * (E[1] * E[1] + E[2] * E[2])
                  /\ joule_source[i][q].num >= 0

C19_Witness ==
    /\ pc = "returned"
    /\ jargs # NoJouleArgs
    /\ jargs.subdomain_indices = <<3, 2>>
    /\ DOMAIN jargs.voltages = {1, 3}
    /\ jargs.voltages[3] = <<-3, 2>>
    /\ joule_source[3][1].num > 0
    /\ joule_source[3] # joule_source[2]

(***************************************************************************)
(* Order of the steps (checked under SpecProgram).                         *)
(***************************************************************************)
\* the positions in the log of the events ev
Positions(ev) == {i \in DOMAIN log : log[i].ev = ev}

\* the ring solves logged so far are those of rings 0, 1, 2, ... in order
SolvesInRingOrder ==
    LET solves == SelectSeq(log, LAMBDA e : e.ev = "solve")
    IN  /\ solves = [k \in 1..Len(solves) |-> Event("solve", k - 1,
                                                    PhiName(k - 1))]
        /\ Len(solves) = Len(sm_phi_list)

\* C20: the steps happen in this order: the solve of ring k before the
\* residual check of ring k and before the solve of ring k+1; J only after
\* all ring solutions exist; the excitation system only after J; the weights
\* solve, when reached, only after the rows of every coil are written; and
\* in the transient heat loop step n+1 takes as previous field the field of
\* step n, which is written before step n+1 starts.
C20_Sequencing ==
    /\ SolvesInRingOrder
    /\ sm_pc = "residuals" =>
          /\ log # <<>>
          /\ log[Len(log)] = Event("solve", Len(sm_phi_list) - 1,
                                   PhiName(Len(sm_phi_list) - 1))
          /\ ~ENABLED SM_SolveRing
    /\ \A j \in Positions("residuals") :
          /\ j > 1
          /\ log[j - 1] = Event("solve", log[j].k, PhiName(log[j].k))
    /\ \A j \in Positions("J") :
          /\ log[j].k = Len(physical_indices)
          /\ Len(phi_list) = Len(physical_indices)
          /\ \A k \in 0..(Len(physical_indices) - 1) :
                \E i \in 1..(j - 1) : log[i] = Event("solve", k, PhiName(k))
    /\ (A # <<>> \/ b # <<>> \/ Positions("prescribe") # {}) =>
          /\ Positions("J") # {}
          /\ J # <<>>
          /\ \A i \in Positions("J"), j \in Positions("prescribe") : i < j
    /\ \A j \in Positions("weights") :
          \A c \in 1..Len(coils) :
             \E i \in 1..(j - 1) :
                log[i] = Event("prescribe", c - 1, coils[c].c_type)
    /\ Transient =>
          /\ \A n \in 2..Len(steps) : steps[n].prev = steps[n - 1].theta
          /\ Len(steps) >= 1 => steps[1].prev = Uniform(background_temp)
          /\ Len(xdmf) = (IF th_pc = "stepped" THEN Len(steps) - 1
                          ELSE Len(steps))
          /\ \A n \in 1..Len(xdmf) : xdmf[n].field = steps[n].theta

C20_Witness ==
    /\ Transient
    /\ th_pc = "stepped"
    /\ Len(steps) = 3
    /\ Len(xdmf) = 2
    /\ steps[3].prev = xdmf[2].field
    /\ steps[3].prev # steps[2].prev

(***************************************************************************)
(* Properties of the excitation system of compute_potential (checked under *)
(* Spec).                                                                  *)
(***************************************************************************)
\* the lists of a sequence of lists, one after the other
RECURSIVE Chain(_, _)
Chain(lists, n) == IF n = 0 THEN <<>> ELSE Chain(lists, n - 1) \o lists[n]

\* C21: the flattening at the start of compute_potential numbers the rings
\* 0..N-1 consecutively, in coil order and then ring order: the index lists
\* of the coils are disjoint contiguous blocks whose union is 0..N-1 (an
\* empty block for a coil with no rings), physical_indices has length N and
\* physical_indices[k] is the subdomain of the ring numbered k.
C21_ConsecutiveRingIndices ==
    pc \notin {"start", "call", "solve_maxwell", "test_heat"} =>
        LET N == Len(Chain([c \in DOMAIN coils |-> coils[c].rings],
                           Len(coils)))
        IN  /\ Len(new_coils) = Len(coils)
            /\ \A c \in DOMAIN coils :
                  Len(new_coils[c]) = Len(coils[c].rings)
            /\ Chain(new_coils, Len(new_coils)) = [i \in 1..N |-> i - 1]
            /\ Len(physical_indices) = N
            /\ \A c \in DOMAIN coils : \A x \in DOMAIN coils[c].rings :
                  physical_indices[new_coils[c][x] + 1] = coils[c].rings[x]
            /\ \A c, d \in DOMAIN new_coils :
                  c # d => Range(new_coils[c]) \cap Range(new_coils[d]) = {}

C21_Witness ==
    /\ pc = "indexed"
    /\ new_coils = <<<<0>>, <<1, 2>>>>
    /\ Len(physical_indices) = 3
    /\ physical_indices[2] = coils[2].rings[1]

\* lines 710-718 on the arrays A0, b0: the system after the first n coils
RECURSIVE DispatchLoop(_, _, _)
DispatchLoop(A0, b0, n) ==
    IF n = 0 THEN [A |-> A0, b |-> b0, err |-> NoError]
    ELSE LET prev == DispatchLoop(A0, b0, n - 1)
         IN  IF prev.err # NoError THEN prev
             ELSE Dispatch(prev.A, prev.b, new_coils[n], coils[n].c_type,
                           coils[n].c_value, J)

\* every coil is of type 'current' or 'voltage' and has a ring
CoilsWellFormed ==
    \A c \in DOMAIN coils :
        /\ coils[c].c_type \in {"current", "voltage"}
        /\ Len(coils[c].rings) >= 1

\* C22: once the dispatch loop has processed every coil (all of type
\* 'current' or 'voltage', each with a ring), every entry of A and of b has
\* been assigned by a prescribe_* call: the system is the same whatever A
\* and b held when they were allocated.
C22_SystemFullyAssigned ==
    (SystemBuilt /\ CoilsWellFormed) =>
        \A A0 \in UninitMatrices(Len(phi_list)) :
            \A b0 \in [Idx(Len(phi_list)) -> {CZero, <<5, 7>>}] :
                LET r == DispatchLoop(A0, b0, Len(coils))
                IN  r.A = A /\ r.b = b

(***************************************************************************)
(* The frame of prescribe_current and prescribe_voltage (checked under     *)
(* SpecPrescribe).                                                         *)
(***************************************************************************)
\* C23: prescribe_current and prescribe_voltage change only the rows of A
\* and the entries of b whose index is in coil_rings: every other row of A
\* and entry of b is as it was before the call (so the rows written for one
\* coil survive the calls for other coils), and J is not modified.
C23_FrameOfPrescribe ==
    [][(pc = "call" /\ args.fn \in {"prescribe_current", "prescribe_voltage"})
        => /\ J' = J
           /\ DOMAIN A' = DOMAIN A
           /\ DOMAIN b' = DOMAIN b
           /\ \A i \in DOMAIN A \ Range(args.coil_rings) :
                 A'[i] = A[i] /\ b'[i] = b[i]]_vars

C23_Witness ==
    /\ Called("prescribe_voltage")
    /\ pc = "returned"
    /\ args.coil_rings = <<2, 0>>
    /\ DOMAIN A = 0..2
    /\ A[1] = args.A0[1] /\ b[1] = args.b0[1]
    /\ A[1][0] # CZero /\ b[1] # CZero
    /\ A[2] # args.A0[2] /\ A[0] # args.A0[0]

(***************************************************************************)
(* Properties of _adaptive_mesh_refinement (checked under SpecRefine).     *)
(***************************************************************************)
Cells == DOMAIN eta
MarkedCells == {c \in DOMAIN cell_markers : cell_markers[c]}
MarkingDone == amr_pc \in {"marked", "refined", "terminated", "returned"}

\* the indicator at rank r (0-based) in descending order: the value with at
\* most r cells strictly above it and more than r cells at or above it
AtRank(r) ==
    CHOOSE v \in {eta[c] : c \in Cells} :
        /\ Cardinality({c \in Cells : eta[c] > v}) <= r
        /\ Cardinality({c \in Cells : eta[c] >= v}) > r

Half == Cardinality(Cells) \div 2

\* what the routine does after the marking: one refinement, then the exit
RefinesOnceAndExits ==
    /\ amr_pc # "returned"
    /\ Len(refinements) = (IF amr_pc \in {"refined", "terminated"} THEN 1
                           ELSE 0)
    /\ amr_pc \in {"refined", "terminated"} =>
          refinements = <<cell_markers>>
    /\ amr_pc = "refined" => ENABLED AMR_Exit
    /\ amr_pc = "terminated" => ~ENABLED NextRefine

\* C24 as stated: the marked cells are those whose indicator is strictly
\* greater than the indicator at rank floor(n/2) in descending order, and
\* they are the floor(n/2) cells with the largest indicators; then exactly
\* one refinement is made and the process terminates.
C24_MarksTopHalf ==
    MarkingDone =>
        /\ MarkedCells = {c \in Cells : eta[c] > AtRank(Half)}
        /\ Cardinality(MarkedCells) = Half
        /\ \A c \in MarkedCells, d \in Cells \ MarkedCells : eta[c] >= eta[d]
        /\ RefinesOnceAndExits

\* C24, amended: the marked cells are those whose indicator is strictly
\* greater than the indicator at rank floor(n/2) in descending order; every
\* marked cell has a larger indicator than every unmarked one; they are at
\* most floor(n/2) cells, and exactly floor(n/2) when the indicators at
\* ranks floor(n/2)-1 and floor(n/2) differ (cells that tie with the
\* threshold are not marked); then exactly one refinement is made and the
\* process terminates.
C24_MarksAboveThreshold ==
    MarkingDone =>
        /\ eta_0 = AtRank(Half)
        /\ MarkedCells = {c \in Cells : eta[c] > AtRank(Half)}
        /\ \A c \in MarkedCells, d \in Cells \ MarkedCells : eta[c] > eta[d]
        /\ Cardinality(MarkedCells) <= Half
        /\ (Half >= 1 /\ AtRank(Half - 1) # AtRank(Half)) =>
              Cardinality(MarkedCells) = Half
        /\ (Half >= 1 /\ AtRank(Half - 1) = AtRank(Half)) =>
              Cardinality(MarkedCells) < Half
        /\ RefinesOnceAndExits

C24_Witness ==
    /\ amr_pc = "terminated"
    /\ eta = [c \in 0..3 |-> IF c = 1 THEN 2 ELSE IF c = 3 THEN 0 ELSE 1]
    /\ eta_0 = 1
    /\ MarkedCells = {1}
    /\ Len(refinements) = 1

====
